---- MODULE Spec2Model ----
(***************************************************************************)
(* got_it: runtime validation of a callable's arguments.                   *)
(*                                                                         *)
(* The module models                                                       *)
(*   - registration (got_it.wrap -> got_it.get_args_spec,                  *)
(*     prepare_args_model, prepare_returns_model),                         *)
(*   - one invocation of the wrapper (parse_args -> restore_args, the      *)
(*     merge, the positional zip, validate_model, the restoration; the     *)
(*     call of the wrapped callable; parse_result),                        *)
(*   - all_methods.wrap, the traversal of the members of a class.          *)
(*                                                                         *)
(* pydantic is outside the repository: it is modelled by the interface     *)
(* the code uses (validate_model over a model's fields, Extra.forbid,      *)
(* coercion of a value to a declared type).                                *)
(***************************************************************************)
EXTENDS Integers, Sequences, FiniteSets, TLC

VARIABLES
    sig,            \* the wrapped callable: its parameters and return annotation
    cfg,            \* the got_it instance: ignore_untyped, strict_types, check_returns
    reg,            \* "unwrapped" | "wrapped" | "error"
    reg_error,      \* the exception wrap() raised: [kind, arg]
    args_spec,      \* closure cell of wrapper: the ArgsSpec built by wrap()
    args_model,     \* closure cell of wrapper: the pydantic model of the arguments
    returns_model,  \* closure cell of wrapper: the returns model, or NoModel
    pc,             \* per invocation: where the wrapper is
    all_args,       \* per invocation: the caller's positional tuple
    all_kwargs,     \* per invocation: the caller's keyword mapping
    parsed,         \* per invocation: what parse_args returned
    received,       \* per invocation: what the wrapped callable was called with
    invoked,        \* per invocation: how many times the wrapped callable ran
    engine_calls,   \* per invocation: how many times validate_model ran
    result,         \* per invocation: what the wrapped callable returned
    outcome,        \* per invocation: what the caller gets: a value or an exception
    classes,        \* class name -> its __dict__: attribute name -> member
    dispatchers,    \* all_methods(...) closures: include_bases, exclude, include
    seen_methods,   \* per closure: class name -> set of seen attribute names
    applied         \* how many times a closure was applied to a class

vars == <<sig, cfg, reg, reg_error, args_spec, args_model, returns_model,
          pc, all_args, all_kwargs, parsed, received, invoked, engine_calls,
          result, outcome, classes, dispatchers, seen_methods, applied>>

regVars == <<sig, cfg, reg, reg_error, args_spec, args_model, returns_model>>
callVars == <<pc, all_args, all_kwargs, parsed, received, invoked, engine_calls,
              result, outcome>>
memberVars == <<classes, dispatchers, seen_methods, applied>>

(***************************************************************************)
(* Bounds of the model.                                                    *)
(***************************************************************************)
MaxPos == 2         \* positional-or-keyword parameters of a generated signature
MaxArgs == 3        \* positional values of a call
MaxKw == 2          \* keyword entries of a call
MaxApplied == 3     \* applications of all_methods closures to classes
MaxConcArgs == 1    \* positional arguments of a call that runs beside another
MaxConcKw == 1      \* keyword entries of a call that runs beside another

(***************************************************************************)
(* Python values, tagged by their type.                                    *)
(***************************************************************************)
IntV(n) == [t |-> "int", v |-> n]
FloatV(n) == [t |-> "float", v |-> n]
StrV(s) == [t |-> "str", v |-> s]
Tup(s) == [t |-> "tuple", v |-> s]
Dict(m) == [t |-> "dict", v |-> m]
None == [t |-> "none", v |-> 0]
empty_ == [t |-> "empty", v |-> 0]
Ellipsis == [t |-> "ellipsis", v |-> 0]

EmptyMap == [n \in {} |-> None]
Put(m, k, x) == [n \in DOMAIN m \cup {k} |-> IF n = k THEN x ELSE m[n]]
Update(m, u) == [n \in DOMAIN m \cup DOMAIN u |-> IF n \in DOMAIN u THEN u[n] ELSE m[n]]
Restrict(m, S) == [n \in DOMAIN m \cap S |-> m[n]]
Range(s) == {s[i] : i \in DOMAIN s}
Min(a, b) == IF a < b THEN a ELSE b

\* a Python name that is None (var_args_name, var_kwargs_name): no parameter
\* can be called None
NoName == "None"
\* positional_args_end = None
NoEnd == -1

(***************************************************************************)
(* Types (annotations).                                                    *)
(***************************************************************************)
T(e) == [c |-> "scalar", e |-> e]
TupleOf(e) == [c |-> "tuple", e |-> e]
DictOf(e) == [c |-> "dict", e |-> e]
EmptyT == [c |-> "empty", e |-> "empty"]
AnyT == T("any")
TupleAny == TupleOf("any")
DictStrAny == DictOf("any")

\* typing.STRICT_TYPES_MAPPING, as built when pydantic's strict types import
STRICT_TYPES_MAPPING(annotation) ==
    CASE annotation = T("int") -> T("StrictInt")
      [] annotation = T("float") -> T("StrictFloat")
      [] annotation = T("bool") -> T("StrictBool")
      [] annotation = T("str") -> T("StrictStr")
      [] OTHER -> annotation

IGNORE_IF_FIRST == {"mcs", "cls", "self"}

(***************************************************************************)
(* Registration: got_it.get_args_spec.                                     *)
(*                                                                         *)
(* A parameter is [name, kind, annotation, default]; an absent annotation  *)
(* is EmptyT and an absent default is empty_ (inspect.Parameter.empty).    *)
(***************************************************************************)
NoError == [kind |-> "none", arg |-> NoName]

NoSpec == [field_definitions |-> <<>>, var_args_name |-> NoName,
           var_kwargs_name |-> NoName, args_names |-> <<>>,
           positional_args_end |-> NoEnd, error |-> NoError]

\* `default in (empty_, None)`
no_default(default) == default \in {empty_, None}

\* the exemption without its `i == 0`
arg_ignored_at_any_index(i, name) == name \in IGNORE_IF_FIRST

\* `i == 0 and name in IGNORE_IF_FIRST`; i counts from 0
arg_ignored(i, name) == i = 0 /\ name \in IGNORE_IF_FIRST

\* the annotation a variadic parameter gets; other kinds keep theirs
kind_annotation(param) ==
    CASE param.kind = "VAR_POSITIONAL" ->
            IF param.annotation = EmptyT THEN TupleAny
            ELSE IF param.annotation.c = "tuple" THEN param.annotation
            ELSE TupleOf(param.annotation.e)
      [] param.kind = "VAR_KEYWORD" ->
            IF param.annotation = EmptyT THEN DictStrAny
            ELSE DictOf(param.annotation.e)
      [] OTHER -> param.annotation

\* the default a variadic parameter gets; other kinds keep theirs
kind_default(param) ==
    CASE param.kind = "VAR_POSITIONAL" -> Tup(<<>>)
      [] param.kind = "VAR_KEYWORD" -> Dict(EmptyMap)
      [] OTHER -> param.default

\* the `raise TypeError("No annotation or default value specified ...")`
untyped_rejected(i, param, ignore_untyped) ==
    /\ kind_annotation(param) = EmptyT
    /\ no_default(kind_default(param))
    /\ ~(ignore_untyped \/ arg_ignored(i, param.name))

\* the annotation stored for the parameter: typing.Any for an accepted untyped
\* parameter, the strict variant under strict_types, EmptyT when the field is
\* defined by its default alone
field_annotation(param, strict_types) ==
    LET annotation == kind_annotation(param) IN
    IF annotation = EmptyT
    THEN IF no_default(kind_default(param)) THEN AnyT ELSE EmptyT
    ELSE IF strict_types THEN STRICT_TYPES_MAPPING(annotation) ELSE annotation

\* `if default is empty_: default = ...`
field_default(param) ==
    IF kind_default(param) = empty_ THEN Ellipsis ELSE kind_default(param)

\* the loop over sign.parameters, from 0-based index i on; acc is the state of
\* the loop's variables
RECURSIVE get_args_spec_loop(_, _, _, _)
get_args_spec_loop(params, i, acc, self) ==
    IF i >= Len(params) THEN acc
    ELSE
      LET param == params[i + 1]
          ends == param.kind \in {"KEYWORD_ONLY", "VAR_POSITIONAL", "VAR_KEYWORD"}
          next == [field_definitions |->
                       Append(acc.field_definitions,
                              [name |-> param.name,
                               annotation |-> field_annotation(param, self.strict_types),
                               default |-> field_default(param)]),
                   var_args_name |->
                       IF param.kind = "VAR_POSITIONAL" THEN param.name
                       ELSE acc.var_args_name,
                   var_kwargs_name |->
                       IF param.kind = "VAR_KEYWORD" THEN param.name
                       ELSE acc.var_kwargs_name,
                   args_names |-> <<>>,
                   positional_args_end |->
                       IF ends /\ acc.positional_args_end = NoEnd THEN i
                       ELSE acc.positional_args_end,
                   error |-> NoError]
      IN IF untyped_rejected(i, param, self.ignore_untyped)
         THEN [acc EXCEPT !.error = [kind |-> "NoAnnotation", arg |-> param.name]]
         ELSE get_args_spec_loop(params, i + 1, next, self)

\* `args_names=tuple(field_definitions)`: the keys, in insertion order
field_names(field_definitions) ==
    [i \in DOMAIN field_definitions |-> field_definitions[i].name]

get_args_spec(self, wrapped) ==
    LET looped == get_args_spec_loop(wrapped.params, 0, NoSpec, self)
    IN [looped EXCEPT !.args_names = field_names(looped.field_definitions)]

(***************************************************************************)
(* The validation engine (pydantic), by the interface the code uses.       *)
(***************************************************************************)
Invalid == [t |-> "invalid", v |-> 0]

IsNumeric(s) == s \in {"1", "2", "3"}
StrToInt(s) == CASE s = "1" -> 1 [] s = "2" -> 2 [] s = "3" -> 3

\* a value against a scalar type: the coerced value, or Invalid
coerce_scalar(e, v) ==
    CASE e = "any" -> v
      [] e = "int" ->
            CASE v.t = "int" -> v
              [] v.t = "float" -> IntV(v.v)
              [] v.t = "str" -> IF IsNumeric(v.v) THEN IntV(StrToInt(v.v)) ELSE Invalid
              [] OTHER -> Invalid
      [] e = "float" ->
            CASE v.t = "int" -> FloatV(v.v)
              [] v.t = "float" -> v
              [] v.t = "str" -> IF IsNumeric(v.v) THEN FloatV(StrToInt(v.v)) ELSE Invalid
              [] OTHER -> Invalid
      [] e = "StrictInt" -> IF v.t = "int" THEN v ELSE Invalid
      [] e = "StrictFloat" -> IF v.t = "float" THEN v ELSE Invalid
      [] OTHER -> Invalid

\* a value against a field's type: Tuple[e, ...] and Dict[str, e] coerce
\* their elements; None passes a field whose default is None
coerce(type, v, allow_none) ==
    CASE v = None /\ (allow_none \/ type = AnyT) -> None
      [] type.c = "scalar" -> coerce_scalar(type.e, v)
      [] type.c = "tuple" ->
            IF v.t = "tuple" /\ \A i \in DOMAIN v.v : coerce_scalar(type.e, v.v[i]) # Invalid
            THEN Tup([i \in DOMAIN v.v |-> coerce_scalar(type.e, v.v[i])])
            ELSE Invalid
      [] type.c = "dict" ->
            IF v.t = "dict" /\ \A n \in DOMAIN v.v : coerce_scalar(type.e, v.v[n]) # Invalid
            THEN Dict([n \in DOMAIN v.v |-> coerce_scalar(type.e, v.v[n])])
            ELSE Invalid
      [] OTHER -> Invalid

\* a field defined by its default alone has the default's type
field_type(fd) == IF fd.annotation = EmptyT THEN T(fd.default.t) ELSE fd.annotation

field_of(fields, n) == fields[CHOOSE i \in DOMAIN fields : fields[i].name = n]

\* the value validate_model gives field fd from input_data: the coerced input,
\* the default of an absent optional field, or Invalid
field_value(fd, input_data) ==
    IF fd.name \in DOMAIN input_data
    THEN coerce(field_type(fd), input_data[fd.name], fd.default = None)
    ELSE IF fd.default = Ellipsis THEN Invalid ELSE fd.default

\* pydantic.validate_model(model, input_data): the validated values and the
\* locations of the errors; under Extra.forbid every key of input_data that
\* is no field of the model is an error, under Extra.ignore it is dropped
validate_model(model, input_data) ==
    LET names == Range(field_names(model.fields))
        bad == {n \in names : field_value(field_of(model.fields, n), input_data) = Invalid}
        extra == IF model.extra = "forbid" THEN DOMAIN input_data \ names ELSE {}
    IN [values |-> [n \in names \ bad |-> field_value(field_of(model.fields, n), input_data)],
        errors |-> bad \cup extra]

NoModel == [fields |-> <<>>, extra |-> "none"]

\* prepare_args_model without its `extra = pydantic.Extra.forbid`
prepare_args_model_extra_ignored(field_definitions) ==
    [fields |-> field_definitions, extra |-> "ignore"]

\* got_it.prepare_args_model: create_model(**field_definitions), then
\* `args_model.__config__.extra = pydantic.Extra.forbid`
prepare_args_model(field_definitions) ==
    [fields |-> field_definitions, extra |-> "forbid"]

\* got_it.prepare_returns_model: create_model(returns=(return_type, ...)) under
\* the default config (Extra.ignore)
prepare_returns_model(wrapped) ==
    [fields |-> <<[name |-> "returns", annotation |-> wrapped.returns,
                   default |-> Ellipsis]>>,
     extra |-> "ignore"]

(***************************************************************************)
(* The callables and decorator instances the model registers.              *)
(***************************************************************************)
Param(name, kind, annotation, default) ==
    [name |-> name, kind |-> kind, annotation |-> annotation, default |-> default]

Annotations == {EmptyT, T("int")}
Defaults == {empty_, None, IntV(2)}

PosParams == {Param(n, "POSITIONAL_OR_KEYWORD", a, d) :
                n \in {"self", "a", "b"}, a \in Annotations, d \in Defaults}

\* Python's grammar: names are distinct, and no parameter without a default
\* follows a positional parameter with one
PosParts ==
    {ps \in UNION {[1..k -> PosParams] : k \in 0..MaxPos} :
        /\ \A i, j \in DOMAIN ps : i < j => ps[i].name # ps[j].name
        /\ \A i, j \in DOMAIN ps : i < j /\ ps[i].default # empty_ => ps[j].default # empty_}

VarPosParts == {<<>>} \cup {<<Param("xs", "VAR_POSITIONAL", a, empty_)>> : a \in Annotations}
KwOnlyParts == {<<>>} \cup {<<Param("c", "KEYWORD_ONLY", a, d)>> :
                                a \in Annotations, d \in Defaults}
VarKwParts == {<<>>} \cup {<<Param("kw", "VAR_KEYWORD", a, empty_)>> : a \in Annotations}

\* every signature of at most MaxPos positional parameters, an optional *xs,
\* an optional keyword-only c and an optional **kw
AllParams == {p \o x \o k \o w :
                p \in PosParts, x \in VarPosParts, k \in KwOnlyParts, w \in VarKwParts}

Callable(params, returns) == [params |-> params, returns |-> returns]

GotIt(ignore_untyped, strict_types, check_returns) ==
    [ignore_untyped |-> ignore_untyped, strict_types |-> strict_types,
     check_returns |-> check_returns]

GotIts == {GotIt(i, s, r) : i \in BOOLEAN, s \in BOOLEAN, r \in BOOLEAN}

(***************************************************************************)
(* State before registration, and of an invocation that has not started.   *)
(***************************************************************************)
Threads == {1, 2}

NoParsed == [known_args |-> <<>>, args |-> <<>>,
             known_kwargs |-> EmptyMap, kwargs |-> EmptyMap]
NoCall == [args |-> <<>>, kwargs |-> EmptyMap]
NoOutcome == [kind |-> "none", value |-> None, names |-> {}]

Unregistered ==
    /\ reg = "unwrapped"
    /\ reg_error = NoError
    /\ args_spec = NoSpec
    /\ args_model = NoModel
    /\ returns_model = NoModel

NoInvocation ==
    /\ pc = [t \in Threads |-> "idle"]
    /\ all_args = [t \in Threads |-> <<>>]
    /\ all_kwargs = [t \in Threads |-> EmptyMap]
    /\ parsed = [t \in Threads |-> NoParsed]
    /\ received = [t \in Threads |-> NoCall]
    /\ invoked = [t \in Threads |-> 0]
    /\ engine_calls = [t \in Threads |-> 0]
    /\ result = [t \in Threads |-> None]
    /\ outcome = [t \in Threads |-> NoOutcome]

NoClasses ==
    /\ classes = <<>>
    /\ dispatchers = <<>>
    /\ seen_methods = <<>>
    /\ applied = 0

(***************************************************************************)
(* got_it.wrap: the registration of a callable.                            *)
(***************************************************************************)
wrap ==
    /\ reg = "unwrapped"
    /\ LET spec == get_args_spec(cfg, sig) IN
        IF spec.error # NoError
        THEN /\ reg' = "error"
             /\ reg_error' = spec.error
             /\ UNCHANGED <<args_spec, args_model, returns_model>>
        ELSE IF cfg.check_returns /\ sig.returns = EmptyT
        THEN \* wrapped.__annotations__['return'] raises KeyError
             /\ reg' = "error"
             /\ reg_error' = [kind |-> "KeyError", arg |-> "return"]
             /\ UNCHANGED <<args_spec, args_model, returns_model>>
        ELSE /\ reg' = "wrapped"
             /\ reg_error' = NoError
             /\ args_spec' = spec
             /\ args_model' = prepare_args_model(spec.field_definitions)
             /\ returns_model' = IF cfg.check_returns
                                 THEN prepare_returns_model(sig) ELSE NoModel
    /\ UNCHANGED <<sig, cfg, callVars, memberVars>>

(***************************************************************************)
(* One invocation: args.restore_args and parsing.parse_args.               *)
(***************************************************************************)
\* restore_args filling known_kwargs from one mapping kept across invocations
restore_args_sharing_kwargs(args, kwargs, known_args_names, known_positional_args_end) ==
    [known_args |->
        IF known_positional_args_end = NoEnd THEN args
        ELSE SubSeq(args, 1, Min(known_positional_args_end, Len(args))),
     additional_args |->
        IF known_positional_args_end = NoEnd THEN <<>>
        ELSE SubSeq(args, known_positional_args_end + 1, Len(args)),
     known_kwargs |-> Restrict(Update(Update(all_kwargs[1], all_kwargs[2]), kwargs),
                               Range(known_args_names)),
     additional_kwargs |-> Restrict(kwargs, DOMAIN kwargs \ Range(known_args_names))]

restore_args(args, kwargs, known_args_names, known_positional_args_end) ==
    [known_args |->
        IF known_positional_args_end = NoEnd THEN args
        ELSE SubSeq(args, 1, Min(known_positional_args_end, Len(args))),
     additional_args |->
        IF known_positional_args_end = NoEnd THEN <<>>
        ELSE SubSeq(args, known_positional_args_end + 1, Len(args)),
     known_kwargs |-> Restrict(kwargs, Range(known_args_names)),
     additional_kwargs |-> Restrict(kwargs, DOMAIN kwargs \ Range(known_args_names))]

\* `known_kwargs[var_args_name or 'args'] = additional_args`
stash_additional_args(arg_spec, known_kwargs, additional_args) ==
    IF additional_args # <<>>
    THEN Put(known_kwargs,
             IF arg_spec.var_args_name # NoName THEN arg_spec.var_args_name ELSE "args",
             Tup(additional_args))
    ELSE known_kwargs

\* the additional keywords go under var_kwargs_name, or into the root
stash_additional_kwargs(arg_spec, known_kwargs, additional_kwargs) ==
    IF DOMAIN additional_kwargs # {}
    THEN IF arg_spec.var_kwargs_name # NoName
         THEN Put(known_kwargs, arg_spec.var_kwargs_name, Dict(additional_kwargs))
         ELSE Update(known_kwargs, additional_kwargs)
    ELSE known_kwargs

\* the indices `zip(known_args, args_names)` pairs
zip_indices(known_args, args_names) == 1..Min(Len(known_args), Len(args_names))

\* the zip without its check of all_kwargs: a keyword is overwritten silently
zip_conflicts_unchecked(known_args, args_names, kwargs) == {}

\* the pairs of the zip whose name is also a keyword of the call
zip_conflicts(known_args, args_names, kwargs) ==
    {i \in zip_indices(known_args, args_names) : args_names[i] \in DOMAIN kwargs}

\* the zip against args_names[1:]: every value lands on the next name
zip_known_args_off_by_one(known_kwargs, known_args, args_names) ==
    LET idx == 1..Min(Len(known_args), Len(args_names) - 1)
        names == {args_names[i + 1] : i \in idx}
    IN [n \in DOMAIN known_kwargs \cup names |->
          IF n \in names
          THEN known_args[CHOOSE i \in idx : args_names[i + 1] = n]
          ELSE known_kwargs[n]]

\* `known_kwargs[name] = arg` for every pair of the zip
zip_known_args(known_kwargs, known_args, args_names) ==
    LET idx == zip_indices(known_args, args_names)
        names == {args_names[i] : i \in idx}
    IN [n \in DOMAIN known_kwargs \cup names |->
          IF n \in names
          THEN known_args[CHOOSE i \in idx : args_names[i] = n /\
                             \A j \in idx : args_names[j] = n => j <= i]
          ELSE known_kwargs[n]]

\* how many names `args_names[:positional_args_end]` holds
positional_count(arg_spec) ==
    IF arg_spec.positional_args_end = NoEnd THEN Len(arg_spec.args_names)
    ELSE Min(arg_spec.positional_args_end, Len(arg_spec.args_names))

\* the restoration of the validated mapping, lines 62-69
restore_parsed(arg_spec, parsed_kwargs) ==
    LET n == positional_count(arg_spec)
        positional == {arg_spec.args_names[i] : i \in 1..n}
        rest1 == Restrict(parsed_kwargs, DOMAIN parsed_kwargs \ positional)
        rest2 == Restrict(rest1, DOMAIN rest1 \ {arg_spec.var_args_name})
        rest3 == Restrict(rest2, DOMAIN rest2 \ {arg_spec.var_kwargs_name})
    IN [known_args |-> [i \in 1..n |-> parsed_kwargs[arg_spec.args_names[i]]],
        args |-> IF arg_spec.var_args_name \in DOMAIN rest1
                 THEN rest1[arg_spec.var_args_name].v ELSE <<>>,
        known_kwargs |-> rest3,
        kwargs |-> IF arg_spec.var_kwargs_name \in DOMAIN rest2
                   THEN rest2[arg_spec.var_kwargs_name].v ELSE EmptyMap]

Raise(kind, names) == [kind |-> kind, value |-> None, names |-> names]
Return(value) == [kind |-> "return", value |-> value, names |-> {}]

\* the mapping handed to validate_model: known_kwargs after lines 40-56
merge_call(arg_spec, args, kwargs) ==
    LET r == restore_args(args, kwargs, arg_spec.args_names, arg_spec.positional_args_end)
    IN zip_known_args(
           stash_additional_kwargs(arg_spec,
               stash_additional_args(arg_spec, r.known_kwargs, r.additional_args),
               r.additional_kwargs),
           r.known_args, arg_spec.args_names)

\* the name of the TypeError of line 55, or NoName: the first pair of the zip
\* whose name is in all_kwargs
conflict_name(arg_spec, args, kwargs) ==
    LET r == restore_args(args, kwargs, arg_spec.args_names, arg_spec.positional_args_end)
        conflicts == zip_conflicts(r.known_args, arg_spec.args_names, kwargs)
    IN IF conflicts = {} THEN NoName
       ELSE arg_spec.args_names[CHOOSE i \in conflicts : \A j \in conflicts : i <= j]

\* parse_args raising the validation error only when a declared field failed:
\* an error on an undeclared key is dropped
parse_args_dropping_extra_errors(model, arg_spec, args, kwargs) ==
    LET conflict == conflict_name(arg_spec, args, kwargs)
        validated == validate_model(model, merge_call(arg_spec, args, kwargs))
    IN IF conflict # NoName
       THEN [raised |-> Raise("TypeError", {conflict}),
             parsed |-> NoParsed, validated |-> 0]
       ELSE IF DOMAIN validated.values # Range(arg_spec.args_names)
       THEN [raised |-> Raise("ValidationError", validated.errors),
             parsed |-> NoParsed, validated |-> 1]
       ELSE [raised |-> NoOutcome,
             parsed |-> restore_parsed(arg_spec, validated.values), validated |-> 1]

\* parse_args: the exception it raises (NoOutcome when none), the four
\* restored parts, and whether validate_model was called
parse_args(model, arg_spec, args, kwargs) ==
    LET conflict == conflict_name(arg_spec, args, kwargs)
        validated == validate_model(model, merge_call(arg_spec, args, kwargs))
    IN IF conflict # NoName
       THEN [raised |-> Raise("TypeError", {conflict}),
             parsed |-> NoParsed, validated |-> 0]
       ELSE IF validated.errors # {}
       THEN [raised |-> Raise("ValidationError", validated.errors),
             parsed |-> NoParsed, validated |-> 1]
       ELSE [raised |-> NoOutcome,
             parsed |-> restore_parsed(arg_spec, validated.values), validated |-> 1]

\* parse_result: validate_model reads input_data.get(...), so a result that
\* is no mapping raises AttributeError; the validated value is read under
\* '__root__'
parse_result(model, value) ==
    IF value.t # "dict" THEN Raise("AttributeError", {"get"})
    ELSE LET validated == validate_model(model, value.v) IN
         IF validated.errors # {} THEN Raise("ValidationError", validated.errors)
         ELSE IF "__root__" \in DOMAIN validated.values
         THEN Return(validated.values["__root__"])
         ELSE Raise("KeyError", {"__root__"})

(***************************************************************************)
(* got_it.wrap.wrapper, one invocation t at a time:                        *)
(*   known_args, args, known_kwargs, kwargs = parse_args(...)              *)
(*   result = wrapped(known_args + args, known_kwargs + kwargs)            *)
(*   return parse_result(returns_model, result) if returns_model           *)
(*          else result                                                    *)
(***************************************************************************)
\* the caller's arguments
ArgValues == {IntV(1), StrV("2"), StrV("x")}
ArgTuples(max) == UNION {[1..k -> ArgValues] : k \in 0..max}
KwNames(wrapped) == {wrapped.params[i].name : i \in DOMAIN wrapped.params} \cup {"z"}
KwMaps(names, max) ==
    UNION {[S -> ArgValues] : S \in {X \in SUBSET names : Cardinality(X) <= max}}

\* what the wrapped callable may return
Results == {IntV(1), StrV("x"), Dict([n \in {"returns"} |-> IntV(1)])}

\* the wrapper is entered with (args, kwargs), drawn from the given sets, and
\* runs parse_args
Call(t, max_args, max_kw) ==
    /\ reg = "wrapped"
    /\ pc[t] = "idle"
    /\ \E args \in ArgTuples(max_args), kwargs \in KwMaps(KwNames(sig), max_kw) :
       \E p \in {parse_args(args_model, args_spec, args, kwargs)} :
        /\ all_args' = [all_args EXCEPT ![t] = args]
        /\ all_kwargs' = [all_kwargs EXCEPT ![t] = kwargs]
        /\ engine_calls' = [engine_calls EXCEPT ![t] = p.validated]
        /\ parsed' = [parsed EXCEPT ![t] = p.parsed]
        /\ outcome' = [outcome EXCEPT ![t] = p.raised]
        /\ pc' = [pc EXCEPT ![t] = IF p.raised = NoOutcome THEN "parsed" ELSE "done"]
    /\ UNCHANGED <<regVars, received, invoked, result, memberVars>>

\* the wrapped callable runs with the restored arguments and returns r
Invoke(t) ==
    /\ pc[t] = "parsed"
    /\ \E r \in Results : result' = [result EXCEPT ![t] = r]
    /\ received' = [received EXCEPT ![t] =
                       [args |-> parsed[t].known_args \o parsed[t].args,
                        kwargs |-> Update(parsed[t].known_kwargs, parsed[t].kwargs)]]
    /\ invoked' = [invoked EXCEPT ![t] = @ + 1]
    /\ pc' = [pc EXCEPT ![t] = "invoked"]
    /\ UNCHANGED <<regVars, all_args, all_kwargs, parsed, engine_calls, outcome,
                   memberVars>>

\* the wrapper returns: the result, or what parse_result makes of it
Finish(t) ==
    /\ pc[t] = "invoked"
    /\ outcome' = [outcome EXCEPT ![t] =
                      IF returns_model # NoModel
                      THEN parse_result(returns_model, result[t])
                      ELSE Return(result[t])]
    /\ pc' = [pc EXCEPT ![t] = "done"]
    /\ UNCHANGED <<regVars, all_args, all_kwargs, parsed, received, invoked,
                   engine_calls, result, memberVars>>

\* the caller has its answer; the invocation's locals are gone
Reset(t) ==
    /\ pc[t] = "done"
    /\ pc' = [pc EXCEPT ![t] = "idle"]
    /\ all_args' = [all_args EXCEPT ![t] = <<>>]
    /\ all_kwargs' = [all_kwargs EXCEPT ![t] = EmptyMap]
    /\ parsed' = [parsed EXCEPT ![t] = NoParsed]
    /\ received' = [received EXCEPT ![t] = NoCall]
    /\ invoked' = [invoked EXCEPT ![t] = 0]
    /\ engine_calls' = [engine_calls EXCEPT ![t] = 0]
    /\ result' = [result EXCEPT ![t] = None]
    /\ outcome' = [outcome EXCEPT ![t] = NoOutcome]
    /\ UNCHANGED <<regVars, memberVars>>

(***************************************************************************)
(* The callables the model invokes.                                        *)
(***************************************************************************)
POK(name, annotation, default) == Param(name, "POSITIONAL_OR_KEYWORD", annotation, default)

\* def f(a: int, b: float, *xs: int, **kw: int) -> int
F_basic == Callable(<<POK("a", T("int"), empty_), POK("b", T("float"), empty_),
                      Param("xs", "VAR_POSITIONAL", T("int"), empty_),
                      Param("kw", "VAR_KEYWORD", T("int"), empty_)>>, T("int"))
\* def f(a: int)
F_one == Callable(<<POK("a", T("int"), empty_)>>, EmptyT)
\* def f(a: int, b=2) -> int
F_default == Callable(<<POK("a", T("int"), empty_), POK("b", EmptyT, IntV(2))>>, T("int"))
\* def m(self, a: int, **kw)
F_method == Callable(<<POK("self", EmptyT, empty_), POK("a", T("int"), empty_),
                       Param("kw", "VAR_KEYWORD", EmptyT, empty_)>>, EmptyT)
\* def f(a: int, *, c: int = 2)
F_kwonly == Callable(<<POK("a", T("int"), empty_),
                       Param("c", "KEYWORD_ONLY", T("int"), IntV(2))>>, EmptyT)
\* def f(a: int, *xs: int, c: int = 2, **kw: int)
F_full == Callable(<<POK("a", T("int"), empty_),
                     Param("xs", "VAR_POSITIONAL", T("int"), empty_),
                     Param("c", "KEYWORD_ONLY", T("int"), IntV(2)),
                     Param("kw", "VAR_KEYWORD", T("int"), empty_)>>, EmptyT)
\* def f(a, b: int)
F_untyped == Callable(<<POK("a", EmptyT, empty_), POK("b", T("int"), empty_)>>, EmptyT)
\* def f()
F_none == Callable(<<>>, EmptyT)
\* def f(**kw: int)
F_varkw == Callable(<<Param("kw", "VAR_KEYWORD", T("int"), empty_)>>, EmptyT)

Callables == {F_basic, F_one, F_default, F_method, F_kwonly, F_full, F_untyped,
              F_none, F_varkw}

\* @got_it, @got_it(wrap_returns=True), @got_it(strict_types=True),
\* @got_it(ignore_untyped=True)
CallGotIts == {GotIt(FALSE, FALSE, FALSE), GotIt(FALSE, FALSE, TRUE),
               GotIt(FALSE, TRUE, FALSE), GotIt(TRUE, FALSE, FALSE)}

Init ==
    /\ sig \in Callables
    /\ cfg \in CallGotIts
    /\ Unregistered
    /\ NoInvocation
    /\ NoClasses

\* registration, then any sequence of invocations
Next ==
    \/ wrap
    \/ Call(1, MaxArgs, MaxKw)
    \/ Invoke(1)
    \/ Finish(1)
    \/ Reset(1)

Spec == Init /\ [][Next]_vars

\* two threads invoke the same wrapped callable; a thread may be preempted
\* before and after the wrapped callable runs
ConcCallables == {F_default, F_varkw}
ConcGotIts == {GotIt(FALSE, FALSE, FALSE), GotIt(FALSE, FALSE, TRUE)}

InitConc ==
    /\ sig \in ConcCallables
    /\ cfg \in ConcGotIts
    /\ Unregistered
    /\ NoInvocation
    /\ NoClasses

NextConc ==
    \/ wrap
    \/ \E t \in Threads :
        \/ Call(t, MaxConcArgs, MaxConcKw)
        \/ Invoke(t)
        \/ Finish(t)
        \/ Reset(t)

SpecConc == InitConc /\ [][NextConc]_vars

(***************************************************************************)
(* all_methods: the closure `wrap` over a class and, with include_bases,    *)
(* its bases.  A member is [kind, ignored, layers, owner]: layers counts    *)
(* the wrappers around the member, owner is the class that declared it.     *)
(***************************************************************************)
Member(kind, ignored, owner) ==
    [kind |-> kind, ignored |-> ignored, layers |-> 0, owner |-> owner]

\* `attr.startswith('_')`
is_sundered(attr) == attr \in {"__init__", "_p"}

\* `is_ignored or (inspect.isclass(obj) or is_sundered and attr not in include)`
member_skipped(attr, obj, include) ==
    obj.ignored \/ (obj.kind = "class" \/ (is_sundered(attr) /\ attr \notin include))

\* a property, a callable, a classmethod or a staticmethod is wrapped; any
\* other value is left alone
member_wrappable(obj) ==
    obj.kind = "property" \/ obj.kind \in {"function", "classmethod", "staticmethod"}

\* `wrapper(obj)`, or `obj.setter(wrapper(obj.fset))` for a property
wrapped_member(obj) == [obj EXCEPT !.layers = @ + 1]

\* `wrapped_cls.__mro__ if include_bases else (wrapped_cls,)`, without object
mro(cls) == IF cls = "A" THEN <<"A", "B">> ELSE <<cls>>
classes_to_wrap(wrapped_cls, include_bases) ==
    IF include_bases THEN mro(wrapped_cls) ELSE <<wrapped_cls>>

\* `seen_methods[wrapped_cls]` of a defaultdict(exclude.copy)
seen_of(seen, wrapped_cls, exclude) ==
    IF wrapped_cls \in DOMAIN seen THEN seen[wrapped_cls] ELSE exclude

\* the loop over classes_to_wrap from index i on: state is the classes and
\* the seen set of wrapped_cls
\* the loop marking a name seen only when its member is installed
RECURSIVE all_methods_loop_marking_installed(_, _, _, _, _)
all_methods_loop_marking_installed(state, order, i, wrapped_cls, include) ==
    IF i > Len(order) THEN state
    ELSE
      LET cls == order[i]
          attrs == DOMAIN state.classes[cls] \ state.seen
          installed == {attr \in attrs :
                          /\ ~member_skipped(attr, state.classes[cls][attr], include)
                          /\ member_wrappable(state.classes[cls][attr])}
          target == [attr \in DOMAIN state.classes[wrapped_cls] \cup installed |->
                        IF attr \in installed
                        THEN wrapped_member(state.classes[cls][attr])
                        ELSE state.classes[wrapped_cls][attr]]
      IN all_methods_loop_marking_installed(
             [classes |-> [state.classes EXCEPT ![wrapped_cls] = target],
              seen |-> state.seen \cup installed],
             order, i + 1, wrapped_cls, include)

RECURSIVE all_methods_loop(_, _, _, _, _)
all_methods_loop(state, order, i, wrapped_cls, include) ==
    IF i > Len(order) THEN state
    ELSE
      LET cls == order[i]
          attrs == DOMAIN state.classes[cls] \ state.seen
          installed == {attr \in attrs :
                          /\ ~member_skipped(attr, state.classes[cls][attr], include)
                          /\ member_wrappable(state.classes[cls][attr])}
          target == [attr \in DOMAIN state.classes[wrapped_cls] \cup installed |->
                        IF attr \in installed
                        THEN wrapped_member(state.classes[cls][attr])
                        ELSE state.classes[wrapped_cls][attr]]
      IN all_methods_loop([classes |-> [state.classes EXCEPT ![wrapped_cls] = target],
                           seen |-> state.seen \cup attrs],
                          order, i + 1, wrapped_cls, include)

\* all_methods.wrap(wrapped_cls) of closure d
all_methods_wrap(d, wrapped_cls) ==
    /\ applied < MaxApplied
    /\ LET self == dispatchers[d]
           done == all_methods_loop(
                       [classes |-> classes,
                        seen |-> seen_of(seen_methods[d], wrapped_cls, self.exclude)],
                       classes_to_wrap(wrapped_cls, self.include_bases), 1,
                       wrapped_cls, self.include)
       IN /\ classes' = done.classes
          /\ seen_methods' = [seen_methods EXCEPT ![d] = Put(@, wrapped_cls, done.seen)]
    /\ applied' = applied + 1
    /\ UNCHANGED <<regVars, callVars, dispatchers>>

\* the classes of test_classes, with a nested class, a plain value and a
\* private method; the base declares a function under every name the derived
\* class declares as a method, an ignored method, a nested class or a value
ClassB == [attr \in {"static_m", "m", "exclude_m", "ignore_m", "Nested", "x"} |->
             Member(IF attr = "static_m" THEN "staticmethod" ELSE "function", FALSE, "B")]
ClassA == [attr \in {"__init__", "m", "class_m", "b", "ignore_m", "exclude_m",
                      "Nested", "x", "_p"} |->
             Member(CASE attr = "class_m" -> "classmethod"
                      [] attr = "b" -> "property"
                      [] attr = "Nested" -> "class"
                      [] attr = "x" -> "value"
                      [] OTHER -> "function",
                    attr = "ignore_m", "A")]
TestClasses == [c \in {"A", "B"} |-> IF c = "A" THEN ClassA ELSE ClassB]

Dispatchers == {1, 2}
AllMethods(include_bases, exclude, include) ==
    [include_bases |-> include_bases, exclude |-> exclude, include |-> include]
AllMethodsCalls ==
    {AllMethods(b, e, i) : b \in BOOLEAN, e \in {{}, {"exclude_m"}, {"m"}},
                           i \in {{}, {"__init__"}}}

InitMembers ==
    /\ sig = F_one
    /\ cfg = GotIt(FALSE, FALSE, FALSE)
    /\ Unregistered
    /\ NoInvocation
    /\ classes = TestClasses
    /\ dispatchers \in [Dispatchers -> AllMethodsCalls]
    /\ seen_methods = [d \in Dispatchers |-> EmptyMap]
    /\ applied = 0

NextMembers == \E d \in Dispatchers, cls \in {"A", "B"} : all_methods_wrap(d, cls)

SpecMembers == InitMembers /\ [][NextMembers]_vars

\* registration alone, over every generated signature and decorator instance
InitReg ==
    /\ sig \in {Callable(ps, r) : ps \in AllParams, r \in Annotations}
    /\ cfg \in GotIts
    /\ Unregistered
    /\ NoInvocation
    /\ NoClasses

NextReg == wrap

SpecReg == InitReg /\ [][NextReg]_vars

(***************************************************************************)
(* Properties of registration, checked under SpecReg.                      *)
(***************************************************************************)
Variadic(param) == param.kind \in {"VAR_POSITIONAL", "VAR_KEYWORD"}

\* the parameters the untyped-parameter policy rejects: not variadic, no
\* annotation, no default (None counts as none), and not exempted as the
\* first parameter named mcs, cls or self
Untyped(wrapped, i) ==
    /\ ~Variadic(wrapped.params[i])
    /\ wrapped.params[i].annotation = EmptyT
    /\ wrapped.params[i].default \in {empty_, None}

Exempted(wrapped, i) == i = 1 /\ wrapped.params[i].name \in {"mcs", "cls", "self"}

RejectedParams ==
    {i \in DOMAIN sig.params :
        Untyped(sig, i) /\ ~cfg.ignore_untyped /\ ~Exempted(sig, i)}

\* C6: a callable with no parameters, or with only a variadic-keyword
\* catch-all, is never wrapped: registration fails, and the ArgsSpec of every
\* wrapped callable has a non-empty field_definitions.
C6_ZeroBindableRejected ==
    /\ (\A i \in DOMAIN sig.params : sig.params[i].kind = "VAR_KEYWORD") => reg # "wrapped"
    /\ reg = "wrapped" => args_spec.field_definitions # <<>>

\* C7: registration fails with the 'No annotation or default value specified'
\* error exactly when some parameter is rejected by the untyped-parameter
\* policy, and the error names the first such parameter; when registration
\* succeeds every parameter has its field, and an untyped parameter that was
\* accepted (exempted, or ignore_untyped) has the type any.
C7_UntypedPolicy ==
    reg # "unwrapped" =>
        /\ (reg = "error" /\ reg_error.kind = "NoAnnotation") <=> RejectedParams # {}
        /\ RejectedParams # {} =>
              reg_error.arg = sig.params[CHOOSE i \in RejectedParams :
                                            \A j \in RejectedParams : i <= j].name
        /\ reg = "wrapped" =>
              /\ Len(args_spec.field_definitions) = Len(sig.params)
              /\ \A i \in DOMAIN sig.params :
                    /\ args_spec.field_definitions[i].name = sig.params[i].name
                    /\ Untyped(sig, i) => args_spec.field_definitions[i].annotation = AnyT

\* C7's case: a parameter named self that is not the first one is rejected
\* although the first parameter carries an annotation
C7_Witness ==
    /\ reg = "error"
    /\ reg_error = [kind |-> "NoAnnotation", arg |-> "self"]
    /\ Len(sig.params) >= 2
    /\ sig.params[2].name = "self"
    /\ sig.params[1].annotation # EmptyT

(***************************************************************************)
(* Properties of one invocation, checked under Spec.  They are stated on   *)
(* the declared signature (sig) and the caller's arguments.                *)
(***************************************************************************)
Names(wrapped) == {wrapped.params[i].name : i \in DOMAIN wrapped.params}
NamesOfKind(wrapped, kind) ==
    {wrapped.params[i].name : i \in {j \in DOMAIN wrapped.params : wrapped.params[j].kind = kind}}
\* the positional-capable fixed parameters are the first K parameters
K(wrapped) == Cardinality(NamesOfKind(wrapped, "POSITIONAL_OR_KEYWORD"))
FixedNames(wrapped) ==
    NamesOfKind(wrapped, "POSITIONAL_OR_KEYWORD") \cup NamesOfKind(wrapped, "KEYWORD_ONLY")
HasVarPos(wrapped) == NamesOfKind(wrapped, "VAR_POSITIONAL") # {}
HasVarKw(wrapped) == NamesOfKind(wrapped, "VAR_KEYWORD") # {}

Started(t) == pc[t] # "idle"
Forwarded(t) == pc[t] = "invoked" \/ (pc[t] = "done" /\ invoked[t] > 0)
Failed(t) == pc[t] = "done" /\ invoked[t] = 0

FieldAt(i) == args_spec.field_definitions[i]
FieldNamed(n) == field_of(args_spec.field_definitions, n)
ElementType(n) == field_type(FieldNamed(n)).e

\* the parameters of the call bound by position and by keyword at once
Conflicting(t) ==
    {i \in 1..Min(K(sig), Len(all_args[t])) : sig.params[i].name \in DOMAIN all_kwargs[t]}
FirstConflicting(t) == CHOOSE i \in Conflicting(t) : \A j \in Conflicting(t) : i <= j

\* the keyword entries of the call that name no declared parameter
UnknownKeywords(t) == DOMAIN all_kwargs[t] \ Names(sig)

\* what C1 expects the wrapped callable to receive
ExpectedPositional(t) ==
    [i \in 1..K(sig) |->
        coerce(field_type(FieldAt(i)), all_args[t][i], FieldAt(i).default = None)]
ExpectedExtra(t) ==
    [j \in 1..(Len(all_args[t]) - K(sig)) |->
        coerce_scalar(ElementType(args_spec.var_args_name), all_args[t][K(sig) + j])]
ExpectedKeywords(t) ==
    [n \in (DOMAIN all_kwargs[t] \ FixedNames(sig)) \cup NamesOfKind(sig, "KEYWORD_ONLY") |->
        IF n \in NamesOfKind(sig, "KEYWORD_ONLY")
        THEN field_value(FieldNamed(n), all_kwargs[t])
        ELSE coerce_scalar(ElementType(args_spec.var_kwargs_name), all_kwargs[t][n])]
ExpectedValid(t) ==
    /\ \A i \in DOMAIN ExpectedPositional(t) : ExpectedPositional(t)[i] # Invalid
    /\ \A j \in DOMAIN ExpectedExtra(t) : ExpectedExtra(t)[j] # Invalid
    /\ \A n \in DOMAIN ExpectedKeywords(t) : ExpectedKeywords(t)[n] # Invalid

\* the calls C1 is about: k positional values and any extras, on a signature
\* with both variadic slots
RoundTripCall(t) ==
    /\ Started(t)
    /\ HasVarPos(sig) /\ HasVarKw(sig)
    /\ Len(all_args[t]) >= K(sig)
    /\ DOMAIN all_kwargs[t] \cap NamesOfKind(sig, "POSITIONAL_OR_KEYWORD") = {}

\* C1: on a signature with k fixed parameters, *xs and **kw, a call passing k
\* positional values, extra positional values and extra keyword entries
\* forwards the k coerced values in order, the coerced overflow in order, and
\* exactly the unmatched keyword entries plus the keyword-only parameters;
\* when every value can be coerced the call is forwarded.
C1_RoundTripShape ==
    \A t \in Threads : RoundTripCall(t) =>
        /\ Forwarded(t) =>
              /\ parsed[t].known_args = ExpectedPositional(t)
              /\ parsed[t].args = ExpectedExtra(t)
              /\ received[t].args = ExpectedPositional(t) \o ExpectedExtra(t)
              /\ received[t].kwargs = ExpectedKeywords(t)
        /\ Failed(t) => ~ExpectedValid(t)

\* C2 as stated: every parameter bound both ways is named by the
\* argument-conflict error, raised before validate_model runs and without
\* the wrapped callable being invoked.
C2_ConflictNamesEveryParameter ==
    \A t \in Threads : Started(t) =>
        \A i \in Conflicting(t) :
            /\ pc[t] = "done"
            /\ outcome[t].kind = "TypeError"
            /\ sig.params[i].name \in outcome[t].names
            /\ engine_calls[t] = 0
            /\ invoked[t] = 0

\* C2, amended: a call that binds some fixed parameter both by position and
\* by keyword raises the argument-conflict error naming the first such
\* parameter in declaration order, before validate_model runs and without
\* the wrapped callable being invoked.
C2_ConflictNamesFirst ==
    \A t \in Threads : Started(t) /\ Conflicting(t) # {} =>
        /\ pc[t] = "done"
        /\ outcome[t] = Raise("TypeError", {sig.params[FirstConflicting(t)].name})
        /\ engine_calls[t] = 0
        /\ invoked[t] = 0

\* C2's case: def f(a: int, b=2) called as f(1, a=1)
C2_Witness ==
    /\ sig = F_default
    /\ pc[1] = "done"
    /\ all_args[1] = <<IntV(1)>>
    /\ all_kwargs[1] = [n \in {"a"} |-> IntV(1)]
    /\ outcome[1] = Raise("TypeError", {"a"})

\* C3 as stated: without **kw, every unknown keyword entry makes the call
\* raise a validation error that references it, whatever else the call
\* carries.
C3_UnknownAlwaysValidationError ==
    \A t \in Threads : Started(t) /\ ~HasVarKw(sig) =>
        \A n \in UnknownKeywords(t) :
            /\ pc[t] = "done"
            /\ outcome[t].kind = "ValidationError"
            /\ n \in outcome[t].names

\* C3, amended: without **kw, a call carrying an unknown keyword entry never
\* reaches the wrapped callable: it raises a validation error that references
\* every unknown keyword name, unless the call also binds a fixed parameter
\* both by position and by keyword, and then it raises the argument-conflict
\* error.
C3_UnknownRejected ==
    \A t \in Threads : Started(t) /\ ~HasVarKw(sig) /\ UnknownKeywords(t) # {} =>
        /\ pc[t] = "done"
        /\ invoked[t] = 0
        /\ IF Conflicting(t) # {}
           THEN outcome[t].kind = "TypeError"
           ELSE /\ outcome[t].kind = "ValidationError"
                /\ UnknownKeywords(t) \subseteq outcome[t].names

\* C3's case: def f(a: int) called as f(1, z=...), the error is at ('z',)
C3_Witness ==
    /\ sig = F_one
    /\ pc[1] = "done"
    /\ all_args[1] = <<IntV(1)>>
    /\ DOMAIN all_kwargs[1] = {"z"}
    /\ outcome[1] = Raise("ValidationError", {"z"})

\* whether a forwarded value has the declared scalar type
Conforms(e, v) ==
    \/ e = "any"
    \/ e \in {"int", "StrictInt"} /\ v.t = "int"
    \/ e \in {"float", "StrictFloat"} /\ v.t = "float"

\* every value the wrapped callable received has the type its parameter
\* declares
ForwardedConforms(t) ==
    /\ \A i \in DOMAIN received[t].args :
          IF i <= K(sig)
          THEN \/ Conforms(field_type(FieldAt(i)).e, received[t].args[i])
               \/ received[t].args[i] = None /\ FieldAt(i).default = None
          ELSE HasVarPos(sig) /\
               Conforms(ElementType(args_spec.var_args_name), received[t].args[i])
    /\ \A n \in DOMAIN received[t].kwargs :
          IF n \in FixedNames(sig)
          THEN \/ Conforms(field_type(FieldNamed(n)).e, received[t].kwargs[n])
               \/ received[t].kwargs[n] = None /\ FieldNamed(n).default = None
          ELSE HasVarKw(sig) /\
               Conforms(ElementType(args_spec.var_kwargs_name), received[t].kwargs[n])

\* the engine accepts the mapping the call is merged into
EngineErrors(t) ==
    validate_model(args_model, merge_call(args_spec, all_args[t], all_kwargs[t])).errors

\* C4: an invocation either passes binding and validation and invokes the
\* wrapped callable exactly once, after validate_model ran once, with the
\* restored validated arguments, or raises the argument-conflict error or the
\* validation error of the engine (with the engine's error locations) and
\* invokes it zero times; it is never invoked twice, nor with a value that
\* does not have its declared type.
C4_AllOrNothing ==
    \A t \in Threads :
        /\ invoked[t] <= 1
        /\ engine_calls[t] <= 1
        /\ pc[t] = "parsed" =>
              /\ invoked[t] = 0
              /\ outcome[t] = NoOutcome
        /\ pc[t] = "parsed" \/ Forwarded(t) =>
              /\ engine_calls[t] = 1
              /\ Conflicting(t) = {}
              /\ EngineErrors(t) = {}
        /\ Forwarded(t) =>
              /\ invoked[t] = 1
              /\ received[t].args = parsed[t].known_args \o parsed[t].args
              /\ received[t].kwargs = Update(parsed[t].known_kwargs, parsed[t].kwargs)
              /\ ForwardedConforms(t)
        /\ Failed(t) =>
              IF Conflicting(t) # {}
              THEN outcome[t].kind = "TypeError" /\ engine_calls[t] = 0
              ELSE /\ outcome[t] = Raise("ValidationError", EngineErrors(t))
                   /\ EngineErrors(t) # {}
                   /\ engine_calls[t] = 1

\* C4's case: def f(a: int, b: float, *xs: int, **kw: int) called as
\* f(1, '2', '2') has returned after one invocation with (1, 2.0, 2)
C4_Witness ==
    /\ sig = F_basic
    /\ pc[1] = "done"
    /\ outcome[1].kind = "return"
    /\ invoked[1] = 1
    /\ all_args[1] = <<IntV(1), StrV("2"), StrV("2")>>
    /\ received[1].args = <<IntV(1), FloatV(2), IntV(2)>>

\* the call of invocation t with only its first j positional values passed
\* by position and the others by keyword
PositionalPart(t, j) == SubSeq(all_args[t], 1, j)
KeywordPart(t, j) ==
    [n \in DOMAIN all_kwargs[t] \cup {sig.params[i].name : i \in (j + 1)..Len(all_args[t])} |->
        IF n \in DOMAIN all_kwargs[t] THEN all_kwargs[t][n]
        ELSE all_args[t][CHOOSE i \in (j + 1)..Len(all_args[t]) : sig.params[i].name = n]]

\* C5: a call without conflict that passes values for positional-capable
\* fixed parameters by position has the outcome of every call that passes
\* some or all of these values by keyword instead, and the wrapped callable
\* receives the fixed parameters in declaration order.
C5_ConventionIndependent ==
    \A t \in Threads :
        Started(t) /\ Len(all_args[t]) <= K(sig) /\ Conflicting(t) = {} =>
            /\ \A j \in 0..Len(all_args[t]) :
                  \E other \in {parse_args(args_model, args_spec,
                                            PositionalPart(t, j), KeywordPart(t, j))} :
                      /\ Failed(t) => other.raised = outcome[t]
                      /\ ~Failed(t) => other.raised = NoOutcome /\ other.parsed = parsed[t]
            /\ Forwarded(t) =>
                  \A i \in 1..K(sig) :
                      received[t].args[i] = field_value(FieldAt(i), KeywordPart(t, 0))

\* C5's case: def f(a: int, b: float, *xs: int, **kw: int) called as
\* f(1, '2', z='2'), the test's f('1', '1.6', z='3')
C5_Witness ==
    /\ sig = F_basic
    /\ pc[1] = "invoked"
    /\ all_args[1] = <<IntV(1), StrV("2")>>
    /\ all_kwargs[1] = [n \in {"z"} |-> StrV("2")]
    /\ received[1] = [args |-> <<IntV(1), FloatV(2)>>, kwargs |-> [n \in {"z"} |-> IntV(2)]]

\* C8: with return checking requested and a result type declared, the
\* returns model declares the key parse_result reads, a result that conforms
\* is returned coerced, and any other raises the validation error.
C8_ReturnRoundTrip ==
    \A t \in Threads :
        pc[t] = "done" /\ invoked[t] = 1 /\ returns_model # NoModel =>
            /\ "__root__" \in Range(field_names(returns_model.fields))
            /\ IF coerce(sig.returns, result[t], FALSE) = Invalid
               THEN outcome[t].kind = "ValidationError"
               ELSE outcome[t] = Return(coerce(sig.returns, result[t], FALSE))

(***************************************************************************)
(* Properties of the member traversal, checked under SpecMembers.          *)
(***************************************************************************)
\* C9: whatever closures are applied to a class, and however often, no
\* member of the class is wrapped more than once.
C9_NoDoubleWrap ==
    \A cls \in DOMAIN classes : \A attr \in DOMAIN classes[cls] :
        classes[cls][attr].layers <= 1

(***************************************************************************)
(* Properties of interleaved invocations, checked under SpecConc.          *)
(***************************************************************************)
\* the spec and the models are the values registration built
SpecAsRegistered ==
    /\ args_spec = get_args_spec(cfg, sig)
    /\ args_model = prepare_args_model(get_args_spec(cfg, sig).field_definitions)
    /\ returns_model = IF cfg.check_returns THEN prepare_returns_model(sig) ELSE NoModel

\* what thread t holds is what the spec and its own arguments determine
OwnOutcome(t) ==
    LET p == parse_args(args_model, args_spec, all_args[t], all_kwargs[t])
        own == [args |-> p.parsed.known_args \o p.parsed.args,
                kwargs |-> Update(p.parsed.known_kwargs, p.parsed.kwargs)]
    IN /\ parsed[t] = p.parsed
       /\ engine_calls[t] = p.validated
       /\ p.raised # NoOutcome => pc[t] = "done" /\ outcome[t] = p.raised /\ invoked[t] = 0
       /\ p.raised = NoOutcome /\ pc[t] = "parsed" => invoked[t] = 0 /\ outcome[t] = NoOutcome
       /\ p.raised = NoOutcome /\ pc[t] \in {"invoked", "done"} =>
              /\ invoked[t] = 1
              /\ received[t] = own
       /\ p.raised = NoOutcome /\ pc[t] = "done" =>
              outcome[t] = IF returns_model # NoModel
                           THEN parse_result(returns_model, result[t])
                           ELSE Return(result[t])

\* a step of any thread leaves the spec, and the tuple and the mapping of a
\* caller whose invocation is still running, as they were
CallerUntouched ==
    /\ reg = "wrapped" =>
          args_spec' = args_spec /\ args_model' = args_model /\ returns_model' = returns_model
    /\ \A t \in Threads :
          Started(t) /\ pc'[t] # "idle" =>
              all_args'[t] = all_args[t] /\ all_kwargs'[t] = all_kwargs[t]

Restored(t) ==
    restore_args(all_args[t], all_kwargs[t], args_spec.args_names,
                 args_spec.positional_args_end)

\* the keyword entries of the call named as a variadic slot of the signature
SlotKeywords(t) ==
    DOMAIN all_kwargs[t] \cap
        (NamesOfKind(sig, "VAR_POSITIONAL") \cup NamesOfKind(sig, "VAR_KEYWORD"))

\* C11: args_names holds only the names of the non-variadic parameters, and
\* for every call restore_args splits the keywords into two disjoint groups
\* whose union is the call's keywords: known_kwargs holds exactly the entries
\* named as a non-variadic parameter, additional_kwargs exactly the others,
\* so that an entry named as a variadic slot is an additional keyword and,
\* when the call is forwarded, reaches the wrapped callable as a keyword.
C11_KeywordPartition ==
    /\ reg = "wrapped" => Range(args_spec.args_names) \subseteq FixedNames(sig)
    /\ \A t \in Threads :
          Started(t) =>
              /\ DOMAIN Restored(t).known_kwargs \cap DOMAIN Restored(t).additional_kwargs = {}
              /\ Update(Restored(t).known_kwargs, Restored(t).additional_kwargs) = all_kwargs[t]
              /\ Restored(t).known_kwargs = Restrict(all_kwargs[t], FixedNames(sig))
              /\ Restored(t).additional_kwargs =
                     Restrict(all_kwargs[t], DOMAIN all_kwargs[t] \ FixedNames(sig))
              /\ Forwarded(t) /\ HasVarKw(sig) =>
                     SlotKeywords(t) \subseteq DOMAIN received[t].kwargs

(***************************************************************************)
(* Properties of one traversal, checked under SpecMembers.                 *)
(***************************************************************************)
\* the classes closure d traverses for class cls, nearest first, and the
\* names it has seen for cls before the traversal
Traversed(d, cls) == IF dispatchers[d].include_bases THEN mro(cls) ELSE <<cls>>
SeenBefore(d, cls) ==
    IF cls \in DOMAIN seen_methods[d] THEN seen_methods[d][cls] ELSE dispatchers[d].exclude

\* the first class in traversal order that declares attr, "" when none does
Nearest(d, cls, attr) ==
    LET order == Traversed(d, cls)
        declaring == {i \in DOMAIN order : attr \in DOMAIN classes[order[i]]}
    IN IF declaring = {} THEN ""
       ELSE order[CHOOSE i \in declaring : \A j \in declaring : i <= j]

\* a declaration the traversal wraps: no ignore marker, no nested class, no
\* underscore-prefixed name unless force-included, and a property or callable
Eligible(d, attr, obj) ==
    /\ ~obj.ignored
    /\ obj.kind \in {"function", "classmethod", "staticmethod", "property"}
    /\ is_sundered(attr) => attr \in dispatchers[d].include

\* the names the traversal of cls by d installs on cls
Installed(d, cls) ==
    {attr \in UNION {DOMAIN classes[c] : c \in Range(Traversed(d, cls))} :
        /\ attr \notin SeenBefore(d, cls)
        /\ Eligible(d, attr, classes[Nearest(d, cls, attr)][attr])}

\* a step is the traversal of cls by d
NearestWinsStep(d, cls) ==
    /\ \A c \in DOMAIN classes \ {cls} : classes'[c] = classes[c]
    /\ \A e \in Dispatchers \ {d} : seen_methods'[e] = seen_methods[e]
    /\ DOMAIN seen_methods'[d] = DOMAIN seen_methods[d] \cup {cls}
    /\ \A c \in DOMAIN seen_methods[d] \ {cls} : seen_methods'[d][c] = seen_methods[d][c]
    /\ seen_methods'[d][cls] =
          SeenBefore(d, cls) \cup UNION {DOMAIN classes[c] : c \in Range(Traversed(d, cls))}
    /\ DOMAIN classes'[cls] = DOMAIN classes[cls] \cup Installed(d, cls)
    /\ \A attr \in DOMAIN classes'[cls] :
          IF attr \in Installed(d, cls)
          THEN LET obj == classes[Nearest(d, cls, attr)][attr]
               IN classes'[cls][attr] = [obj EXCEPT !.layers = obj.layers + 1]
          ELSE classes'[cls][attr] = classes[cls][attr]

\* C12: a traversal of a class, and then of its ancestors nearest first,
\* considers each member name only at the first class that declares it and
\* marks it seen whatever comes of it: it wraps that declaration once when
\* the declaration is eligible, and otherwise leaves the target as it was, so
\* that an excluded name, an ignored member, an underscore-prefixed name not
\* force-included, a nested class or a plain value is not wrapped and no
\* ancestor's member of that name is installed in its place.
C12_NearestDeclarationWins ==
    [][\E d \in Dispatchers, cls \in DOMAIN classes : NearestWinsStep(d, cls)]_vars

\* C12's case: all_methods(got_it, include_bases=True, exclude={'exclude_m'})
\* applied once to A: m and static_m are wrapped, the latter installed from
\* B, while exclude_m, ignore_m, Nested and x stay A's own, unwrapped
C12_Witness ==
    /\ applied = 1
    /\ dispatchers[1] = AllMethods(TRUE, {"exclude_m"}, {})
    /\ "A" \in DOMAIN seen_methods[1]
    /\ classes["A"]["m"] = [Member("function", FALSE, "A") EXCEPT !.layers = 1]
    /\ classes["A"]["static_m"] = [Member("staticmethod", FALSE, "B") EXCEPT !.layers = 1]
    /\ \A attr \in {"exclude_m", "ignore_m", "Nested", "x", "__init__"} :
          classes["A"][attr] = ClassA[attr]

(***************************************************************************)
(* Properties of calls with too many positional values, checked under Spec.*)
(***************************************************************************)
\* the call of thread t passes more positional values than the signature
\* has positional-capable parameters, and the signature has no *args slot
Overflowing(t) == Started(t) /\ ~HasVarPos(sig) /\ Len(all_args[t]) > K(sig)

\* C13: on a signature without a variadic-positional slot, a call passing
\* more positional values than there are positional-capable parameters ends
\* with an error and the wrapped callable is not invoked.
C13_OverflowRejected ==
    \A t \in Threads :
        Overflowing(t) =>
            /\ Failed(t)
            /\ outcome[t].kind \in {"TypeError", "ValidationError"}

====
